---- MODULE Spec2Model ----
(***************************************************************************)
(* The Exif Viewer front end (src/src/App.tsx) as a state machine.         *)
(*                                                                         *)
(* State: the ten React state cells of App, plus the asynchronous handler  *)
(* instances that are suspended at an await (the picker dialog or the      *)
(* backend invoke).  The statements a handler runs between two awaits run  *)
(* to completion on the UI thread and their state updates are applied      *)
(* together, so each such run is one action.  A button is disabled only    *)
(* while its busy flag is set, and the flag is set after the dialog has    *)
(* resolved, so several instances of a handler can be suspended at once.   *)
(*                                                                         *)
(* Conventions.  A nullable string (string | null) is <<>> for null and    *)
(* <<s>> for the string s.  A text the user can type is a sequence of      *)
(* one-character strings, so that parseFloat can be computed on it.  A     *)
(* number is a record [kind, val]: kind is "finite", "NaN", "Infinity" or  *)
(* "-Infinity", and val is the value in hundredths when finite.            *)
(***************************************************************************)
EXTENDS Integers, Sequences, FiniteSets, TLC

\* ------------------------------------------------------------------------
\* Bounds of the model
\* ------------------------------------------------------------------------

\* How many user actions (button clicks, edits of the minimum-score field)
\* one run holds.
MaxUserActions == 2

\* How many components a path given to getFileName / formatPath holds, and
\* how many characters one component holds.
MaxComponents == 2

MaxComponentLen == 2

\* ------------------------------------------------------------------------
\* Nullable strings and JavaScript truthiness
\* ------------------------------------------------------------------------

Null == <<>>

Some(s) == <<s>>

\* !x for a value of type string | null: null and "" are falsy.
Truthy(x) == x # Null /\ x[1] # ""

\* ------------------------------------------------------------------------
\* Constants of App.tsx
\* ------------------------------------------------------------------------

\* The list with its last entry dropped.
IMAGE_FILTERS_NoBmp ==
  <<"jpg", "jpeg", "png", "tif", "tiff", "webp", "heic", "heif", "avif">>

IMAGE_FILTERS ==
  <<"jpg", "jpeg", "png", "tif", "tiff", "webp", "heic", "heif", "avif", "bmp">>

NoExifMessage == "No EXIF metadata was found in the selected file."

ReadFallbackMessage == "Unable to read EXIF metadata for the selected file."

InvalidScoreMessage == "Enter a valid minimum score before scanning."

ScanFallbackMessage == "Unable to scan the selected folder."

\* useState("0.75")
InitialMinScoreInput == <<"0", ".", "7", "5">>

\* ------------------------------------------------------------------------
\* Number.parseFloat and Number.isFinite
\* ------------------------------------------------------------------------

DigitChars == <<"0", "1", "2", "3", "4", "5", "6", "7", "8", "9">>

Digits == {DigitChars[i] : i \in 1..Len(DigitChars)}

DigitVal(c) == (CHOOSE i \in 1..Len(DigitChars) : DigitChars[i] = c) - 1

InfinityChars == <<"I", "n", "f", "i", "n", "i", "t", "y">>

WhiteSpace == {" "}

HasPrefix(s, p) == Len(s) >= Len(p) /\ SubSeq(s, 1, Len(p)) = p

\* The number of consecutive digits of s from position i on.
RECURSIVE DigitsLen(_, _)
DigitsLen(s, i) ==
  IF i <= Len(s) /\ s[i] \in Digits THEN 1 + DigitsLen(s, i + 1) ELSE 0

\* The integer written by the n digits of s from position i on.
RECURSIVE DigitsValue(_, _, _)
DigitsValue(s, i, n) ==
  IF n = 0 THEN 0 ELSE 10 * DigitsValue(s, i, n - 1) + DigitVal(s[i + n - 1])

RECURSIVE TrimStart(_)
TrimStart(s) ==
  IF s # <<>> /\ s[1] \in WhiteSpace THEN TrimStart(Tail(s)) ELSE s

NaN == [kind |-> "NaN", val |-> 0]

Finite(v) == [kind |-> "finite", val |-> v]

\* Number.parseFloat(text): leading white space is skipped and the longest
\* prefix that is a decimal literal is converted; NaN when there is none.
\* val is in hundredths: of the fraction the first two digits are kept (the
\* texts of MinScoreTexts have at most two).  Exponents are not modelled; no
\* text of MinScoreTexts holds one.
ParseFloat(text) ==
  LET t == TrimStart(text)
      signed == t # <<>> /\ t[1] \in {"+", "-"}
      neg == signed /\ t[1] = "-"
      r == IF signed THEN Tail(t) ELSE t
      ni == DigitsLen(r, 1)
      hasDot == Len(r) > ni /\ r[ni + 1] = "."
      nf == IF hasDot THEN DigitsLen(r, ni + 2) ELSE 0
      f1 == IF nf >= 1 THEN DigitVal(r[ni + 2]) ELSE 0
      f2 == IF nf >= 2 THEN DigitVal(r[ni + 3]) ELSE 0
      mag == 100 * DigitsValue(r, 1, ni) + 10 * f1 + f2
  IN  IF HasPrefix(r, InfinityChars)
        THEN [kind |-> IF neg THEN "-Infinity" ELSE "Infinity", val |-> 0]
      ELSE IF ni = 0 /\ nf = 0 THEN NaN
      ELSE Finite(IF neg THEN 0 - mag ELSE mag)

\* !Number.isNaN(x): lets the infinities through.
IsFinite_NotNaN(x) == x.kind # "NaN"

\* Number.isFinite(x)
IsFinite(x) == x.kind = "finite"

\* ------------------------------------------------------------------------
\* Inputs: what the user, the dialogs and the backend can supply
\* ------------------------------------------------------------------------

\* Values of event.target.value the minimum-score field reports: the empty
\* text, numbers (one of them negative) and texts that are no number.
MinScoreTexts ==
  { <<>>,
    <<"0", ".", "8", "5">>,
    <<"-", "1">>,
    <<"N", "a", "N">>,
    <<"I", "n", "f", "i", "n", "i", "t", "y">>,
    <<"a", "b", "c">> }

\* The files the image picker can show, each with its extension.
Files ==
  { [path |-> "/pics/a.jpg", ext |-> "jpg"],
    [path |-> "/pics/b.heic", ext |-> "heic"],
    [path |-> "/pics/notes.txt", ext |-> "txt"] }

\* The folders the directory picker can show.
Folders == {"/pics", "/empty"}

\* What open({multiple: false, filters}) resolves to: null when the dialog is
\* dismissed, else the path of one file whose extension is in the filter.
OpenFileSelections(filters) ==
  {Null} \cup
  {Some(f.path) : f \in {g \in Files :
                           \E i \in 1..Len(filters) : filters[i] = g.ext}}

\* What open({directory: true, multiple: false}) resolves to.
OpenFolderSelections == {Null} \cup {Some(d) : d \in Folders}

F1 == [tag |-> "Make", ifd |-> "IFD0", value |-> "Canon"]

F2 == [tag |-> "ISO", ifd |-> "Exif", value |-> "100"]

\* read_exif's success values: an ordered list of ExifField, possibly empty.
ReadExifResults == {<<>>, <<F1, F2>>}

M1 == [path |-> "/pics/a.jpg", score |-> 90]

M2 == [path |-> "/pics/b.heic", score |-> 80]

MatchLists == {<<>>, <<M1>>, <<M1, M2>>, <<M2, M1>>}

\* find_aesthetic_images's success values for a threshold: lists of
\* AestheticMatch, possibly empty, every score at least the threshold, in no
\* mandated order; none for a negative threshold, which the walker rejects.
FindAestheticResults(min_score) ==
  IF min_score.val < 0 THEN {}
  ELSE {l \in MatchLists : \A i \in 1..Len(l) : l[i].score >= min_score.val}

\* What an invoke can reject with: a string (the backend's Err(String)), an
\* Error object, or another value (null here).
Rejections ==
  { [kind |-> "string", text |-> "failed to read /pics"],
    [kind |-> "string", text |-> ""],
    [kind |-> "Error", text |-> "IPC channel closed"],
    [kind |-> "null", text |-> ""] }

NoRejection == [kind |-> "none", text |-> ""]

\* err instanceof Error ? err.message : String(err)
ErrMessage(err) ==
  CASE err.kind = "Error" -> err.text
    [] err.kind = "string" -> err.text
    [] err.kind = "null" -> "null"

\* fallback || message: the operands of || swapped.
OrElse_Swapped(message, fallback) == IF fallback # "" THEN fallback ELSE message

\* message || fallback
OrElse(message, fallback) == IF message # "" THEN message ELSE fallback

\* ------------------------------------------------------------------------
\* formatPath and getFileName; a path is the sequence of its characters
\* ------------------------------------------------------------------------

Backslash == "\\"

Slash == "/"

\* path.includes(ch)
Includes(path, ch) == \E i \in 1..Len(path) : path[i] = ch

\* path.split(separator) for a one-character separator: the pieces between
\* the separators, empty pieces included.
RECURSIVE Split(_, _)
Split(path, separator) ==
  IF ~Includes(path, separator) THEN <<path>>
  ELSE LET i == CHOOSE k \in 1..Len(path) :
                  /\ path[k] = separator
                  /\ \A j \in 1..(k - 1) : path[j] # separator
       IN <<SubSeq(path, 1, i - 1)>> \o
            Split(SubSeq(path, i + 1, Len(path)), separator)

\* parts.filter(Boolean): the non-empty pieces.
RECURSIVE FilterBoolean(_)
FilterBoolean(parts) ==
  IF parts = <<>> THEN <<>>
  ELSE (IF Len(Head(parts)) > 0 THEN <<Head(parts)>> ELSE <<>>) \o
         FilterBoolean(Tail(parts))

\* parts.join(separator)
RECURSIVE Join(_, _)
Join(parts, separator) ==
  IF parts = <<>> THEN <<>>
  ELSE IF Len(parts) = 1 THEN parts[1]
  ELSE parts[1] \o <<separator>> \o Join(Tail(parts), separator)

\* const separator = path.includes("\\") ? "\\" : "/"
SeparatorOf(path) == IF Includes(path, Backslash) THEN Backslash ELSE Slash

NoFileSelected ==
  <<"N", "o", " ", "f", "i", "l", "e", " ", "s", "e", "l", "e", "c", "t",
    "e", "d">>

\* The em dash (U+2014) as one character, and the " \u2014 " the template of
\* formatPath puts between the file name and the directory.
EmDash == "U+2014"

Dash == <<" ", EmDash, " ">>

\* getFileName(path)
getFileName(path) ==
  LET separator == SeparatorOf(path)
      parts == FilterBoolean(Split(path, separator))
  IN IF Len(parts) = 0 THEN path ELSE parts[Len(parts)]

\* formatPath(path), path a nullable string
formatPath(path) ==
  IF path = Null \/ Len(path[1]) = 0 THEN NoFileSelected
  ELSE LET separator == SeparatorOf(path[1])
           parts == FilterBoolean(Split(path[1], separator))
       IN IF Len(parts) = 0 THEN path[1]
          ELSE LET fileName == parts[Len(parts)]
                   directory == Join(SubSeq(parts, 1, Len(parts) - 1), separator)
               IN IF Len(directory) > 0 THEN fileName \o Dash \o directory
                  ELSE fileName

\* ------------------------------------------------------------------------
\* State
\* ------------------------------------------------------------------------

VARIABLES
  fields,        \* useState<ExifField[]>([])
  filePath,      \* useState<string | null>(null)
  loading,       \* useState(false)
  error,         \* useState<string | null>(null)
  folderPath,    \* useState<string | null>(null)
  scanResults,   \* useState<AestheticMatch[]>([])
  scanLoading,   \* useState(false)
  scanError,     \* useState<string | null>(null)
  scanAttempted, \* useState(false)
  minScoreInput, \* useState("0.75")
  fileOps,       \* the handleOpenFile instances suspended at an await
  scanOps,       \* the handleOpenFolder / scanFolder instances suspended at an await
  nActs,         \* user actions so far; a handler's id is its click's number
  updates,       \* history: per started handler, the result updates it has applied
  last,          \* history: the handler step taken last
  hist,          \* history: the calls the displayed data came from
  pathCase       \* a path handed to getFileName and formatPath, and their results

fileState == <<fields, filePath, loading, error>>

scanState == <<folderPath, scanResults, scanLoading, scanError, scanAttempted>>

appVars ==
  <<fields, filePath, loading, error, folderPath, scanResults, scanLoading,
    scanError, scanAttempted, minScoreInput, fileOps, scanOps, nActs,
    updates, last, hist>>

vars == <<appVars, pathCase>>

\* A handler step, as recorded in the history variable last: which step, of
\* which handler instance, the list or the rejection the backend answered
\* with, and for a scanFolder call the minimum-score text it ran with.
Step(kind, id, result, err) ==
  [kind |-> kind, id |-> id, result |-> result, err |-> err, text |-> <<>>]

OpIds == 1..MaxUserActions

\* The history variable hist records where the displayed data came from:
\* fieldsPath is the path argument of the read_exif call whose answer is in
\* fields (Null when fields is not the answer of a call), scan is the
\* find_aesthetic_images call whose answer is in scanResults (NoScan when
\* scanResults is not the answer of a call), latest is the handler id of the
\* most recently started find_aesthetic_images call, and click is the last
\* step when that step was a click that opened a picker, or the cancel of
\* that same picker: the handler's id and the state the click found.
NoScan == [id |-> 0, path |-> "", min_score |-> NaN]

NoClick == [id |-> 0, before |-> <<>>]

Clicked(id) == [id |-> id, before |-> <<fileState, scanState>>]

\* No path is being rendered.
NoPathCase ==
  [platform |-> "none", components |-> <<>>, rooted |-> FALSE, path |-> <<>>,
   fileName |-> Null, shown |-> Null]

AppInit ==
  /\ fields = <<>>
  /\ filePath = Null
  /\ loading = FALSE
  /\ error = Null
  /\ folderPath = Null
  /\ scanResults = <<>>
  /\ scanLoading = FALSE
  /\ scanError = Null
  /\ scanAttempted = FALSE
  /\ minScoreInput = InitialMinScoreInput
  /\ fileOps = {}
  /\ scanOps = {}
  /\ nActs = 0
  /\ updates = [id \in OpIds |-> 0]
  /\ last = Step("init", 0, <<>>, NoRejection)
  /\ hist = [fieldsPath |-> Null, scan |-> NoScan, latest |-> 0,
             click |-> NoClick]

Init ==
  /\ AppInit
  /\ pathCase = NoPathCase

\* ------------------------------------------------------------------------
\* Derived values of a render
\* ------------------------------------------------------------------------

hasData == Len(fields) > 0

hasScanResults == Len(scanResults) > 0

\* The open-image buttons: disabled={loading}
OpenFileDisabled == loading

\* The browse-for-folder button: disabled={scanLoading}
OpenFolderDisabled == scanLoading

\* The rescan button: disabled={scanLoading || !folderPath}
RescanDisabled == scanLoading \/ ~Truthy(folderPath)

\* {error && !loading && <Alert severity="error">}
FileErrorAlertShown == Truthy(error) /\ ~loading

\* {!error && !loading && filePath && !hasData && <Alert severity="info">}
FileInfoAlertShown == ~Truthy(error) /\ ~loading /\ Truthy(filePath) /\ ~hasData

\* {scanError && !scanLoading && <Alert severity="error">}
ScanErrorAlertShown == Truthy(scanError) /\ ~scanLoading

\* {scanAttempted && !scanLoading && !scanError && !hasScanResults && <Alert severity="info">}
ScanInfoAlertShown ==
  scanAttempted /\ ~scanLoading /\ ~Truthy(scanError) /\ ~hasScanResults

\* The rows of the scan results table: scanResults.map(...), in list order.
ScanTableRows == IF hasScanResults THEN scanResults ELSE <<>>

\* parsedMinScore: Number.parseFloat(minScoreInput) when it is finite, else
\* null.
parsedMinScore ==
  LET parsed == ParseFloat(minScoreInput) IN
    IF IsFinite(parsed) THEN Some(parsed) ELSE Null

\* A summary sentence: which of the six sentences it is, and for the two
\* sentences that quote them the number of images and the threshold
\* interpolated into it.
Summary(kind, count, score) == [kind |-> kind, count |-> count, score |-> score]

\* scanSummaryText: the first sentence whose condition holds, tested in the
\* order of the code.
scanSummaryText ==
  IF ~Truthy(folderPath) THEN Summary("select", 0, NaN)
  ELSE IF scanLoading THEN Summary("scanning", 0, NaN)
  ELSE IF Truthy(scanError) THEN Summary("unable", 0, NaN)
  ELSE IF hasScanResults /\ parsedMinScore # Null
    THEN Summary("found", Len(scanResults), parsedMinScore[1])
  ELSE IF scanAttempted /\ parsedMinScore # Null
    THEN Summary("none", 0, parsedMinScore[1])
  ELSE Summary("choose", 0, NaN)

\* ------------------------------------------------------------------------
\* handleOpenFile
\* ------------------------------------------------------------------------

\* A click on an open-image button: setError(null), then open({...}) is
\* awaited with the Images filter.
handleOpenFile ==
  /\ ~OpenFileDisabled
  /\ nActs < MaxUserActions
  /\ error' = Null
  /\ nActs' = nActs + 1
  /\ fileOps' = fileOps \cup
       {[id |-> nActs + 1, pc |-> "open", filters |-> IMAGE_FILTERS,
         selection |-> Null, path |-> ""]}
  /\ last' = Step("file_click", nActs + 1, <<>>, NoRejection)
  /\ hist' = [hist EXCEPT !.click = Clicked(nActs + 1)]
  /\ UNCHANGED <<pathCase, fields, filePath, loading, scanState,
                 minScoreInput, scanOps, updates>>

\* The dialog resolves with no selection: if (!selection) return.
handleOpenFile_cancelled ==
  \E op \in fileOps :
    /\ op.pc = "open"
    /\ \E selection \in OpenFileSelections(op.filters) :
         /\ ~Truthy(selection)
         /\ fileOps' = fileOps \ {op}
         /\ last' = Step("file_cancel", op.id, <<>>, NoRejection)
    /\ hist' = [hist EXCEPT !.click = IF @.id = op.id THEN @ ELSE NoClick]
    /\ UNCHANGED <<pathCase, fileState, scanState, minScoreInput, scanOps,
                   nActs, updates>>

\* The selection path with one busy flag shared by both operations.
handleOpenFile_selected_SharedFlag ==
  \E op \in fileOps :
    /\ op.pc = "open"
    /\ \E selection \in OpenFileSelections(op.filters) :
         /\ Truthy(selection)
         /\ LET selectedPath == selection[1] IN
              /\ filePath' = Some(selectedPath)
              /\ loading' = TRUE
              /\ scanLoading' = TRUE
              /\ fileOps' = (fileOps \ {op}) \cup
                   {[op EXCEPT !.pc = "invoke", !.selection = selection,
                                !.path = selectedPath]}
              /\ last' = Step("read_start", op.id, <<>>, NoRejection)
    /\ hist' = [hist EXCEPT !.click = NoClick]
    /\ UNCHANGED <<pathCase, fields, error, folderPath, scanResults, scanError,
                   scanAttempted, minScoreInput, scanOps, nActs, updates>>

\* The dialog resolves with a path: setFilePath, setLoading(true), then
\* invoke("read_exif", {path}) is awaited.
handleOpenFile_selected ==
  \E op \in fileOps :
    /\ op.pc = "open"
    /\ \E selection \in OpenFileSelections(op.filters) :
         /\ Truthy(selection)
         /\ LET selectedPath == selection[1] IN
              /\ filePath' = Some(selectedPath)
              /\ loading' = TRUE
              /\ fileOps' = (fileOps \ {op}) \cup
                   {[op EXCEPT !.pc = "invoke", !.selection = selection,
                                !.path = selectedPath]}
              /\ last' = Step("read_start", op.id, <<>>, NoRejection)
    /\ hist' = [hist EXCEPT !.click = NoClick]
    /\ UNCHANGED <<pathCase, fields, error, scanState, minScoreInput,
                   scanOps, nActs, updates>>

\* read_exif resolves: setFields(result), the no-EXIF message when the list
\* is empty, and finally setLoading(false).
handleOpenFile_resolved ==
  \E op \in fileOps :
    /\ op.pc = "invoke"
    /\ \E result \in ReadExifResults :
         /\ fields' = result
         /\ error' = IF Len(result) = 0 THEN Some(NoExifMessage) ELSE error
         /\ last' = Step("read_ok", op.id, result, NoRejection)
    /\ hist' = [hist EXCEPT !.fieldsPath = Some(op.path), !.click = NoClick]
    /\ loading' = FALSE
    /\ fileOps' = fileOps \ {op}
    /\ updates' = [updates EXCEPT ![op.id] = @ + 1]
    /\ UNCHANGED <<pathCase, filePath, scanState, minScoreInput, scanOps,
                   nActs>>

\* The rejection path without the finally block: loading is left set.
handleOpenFile_rejected_NoFinally ==
  \E op \in fileOps :
    /\ op.pc = "invoke"
    /\ \E err \in Rejections :
         LET message == ErrMessage(err) IN
           /\ fields' = <<>>
           /\ error' = Some(OrElse(message, ReadFallbackMessage))
           /\ last' = Step("read_err", op.id, <<>>, err)
    /\ hist' = [hist EXCEPT !.fieldsPath = Null, !.click = NoClick]
    /\ fileOps' = fileOps \ {op}
    /\ updates' = [updates EXCEPT ![op.id] = @ + 1]
    /\ UNCHANGED <<pathCase, filePath, loading, scanState, minScoreInput,
                   scanOps, nActs>>

\* read_exif rejects: setFields([]), setError(message || fallback), and
\* finally setLoading(false).
handleOpenFile_rejected ==
  \E op \in fileOps :
    /\ op.pc = "invoke"
    /\ \E err \in Rejections :
         LET message == ErrMessage(err) IN
           /\ fields' = <<>>
           /\ error' = Some(OrElse(message, ReadFallbackMessage))
           /\ last' = Step("read_err", op.id, <<>>, err)
    /\ hist' = [hist EXCEPT !.fieldsPath = Null, !.click = NoClick]
    /\ loading' = FALSE
    /\ fileOps' = fileOps \ {op}
    /\ updates' = [updates EXCEPT ![op.id] = @ + 1]
    /\ UNCHANGED <<pathCase, filePath, scanState, minScoreInput, scanOps,
                   nActs>>

\* ------------------------------------------------------------------------
\* scanFolder, handleOpenFolder, handleRescan, handleMinScoreChange
\* ------------------------------------------------------------------------

\* scanFolder without setScanResults([]) before the invoke.
scanFolder_NoReset(rest, id, path, text) ==
  LET threshold == ParseFloat(text) IN
    IF ~IsFinite(threshold)
      THEN /\ scanError' = Some(InvalidScoreMessage)
           /\ scanResults' = <<>>
           /\ scanAttempted' = TRUE
           /\ scanOps' = rest
           /\ last' = [Step("scan_refused", id, <<>>, NoRejection)
                        EXCEPT !.text = text]
           /\ hist' = [hist EXCEPT !.scan = NoScan, !.click = NoClick]
           /\ UNCHANGED scanLoading
      ELSE /\ scanLoading' = TRUE
           /\ scanError' = Null
           /\ scanAttempted' = TRUE
           /\ scanOps' = rest \cup
                {[id |-> id, pc |-> "invoke", text |-> text, path |-> path,
                  min_score |-> threshold]}
           /\ last' = [Step("scan_start", id, <<>>, NoRejection)
                        EXCEPT !.text = text]
           /\ hist' = [hist EXCEPT !.latest = id, !.click = NoClick]
           /\ UNCHANGED scanResults

\* scanFolder(path) up to its first await, run by the handler instance id
\* whose closure holds the minimum-score text `text`; `rest` are the other
\* suspended instances.  A text that does not parse to a finite number is
\* refused; otherwise the scan state is reset and
\* invoke("find_aesthetic_images", {path, min_score}) is awaited.
scanFolder(rest, id, path, text) ==
  LET threshold == ParseFloat(text) IN
    IF ~IsFinite(threshold)
      THEN /\ scanError' = Some(InvalidScoreMessage)
           /\ scanResults' = <<>>
           /\ scanAttempted' = TRUE
           /\ scanOps' = rest
           /\ last' = [Step("scan_refused", id, <<>>, NoRejection)
                        EXCEPT !.text = text]
           /\ hist' = [hist EXCEPT !.scan = NoScan, !.click = NoClick]
           /\ UNCHANGED scanLoading
      ELSE /\ scanLoading' = TRUE
           /\ scanError' = Null
           /\ scanAttempted' = TRUE
           /\ scanResults' = <<>>
           /\ scanOps' = rest \cup
                {[id |-> id, pc |-> "invoke", text |-> text, path |-> path,
                  min_score |-> threshold]}
           /\ last' = [Step("scan_start", id, <<>>, NoRejection)
                        EXCEPT !.text = text]
           /\ hist' = [hist EXCEPT !.scan = NoScan, !.latest = id,
                                   !.click = NoClick]

\* A click on the browse-for-folder button: open({directory: true}) is
\* awaited.  The instance keeps the scanFolder of the render it was created
\* in, and with it that render's minScoreInput.
handleOpenFolder ==
  /\ ~OpenFolderDisabled
  /\ nActs < MaxUserActions
  /\ nActs' = nActs + 1
  /\ scanOps' = scanOps \cup
       {[id |-> nActs + 1, pc |-> "open", text |-> minScoreInput,
         path |-> "", min_score |-> NaN]}
  /\ last' = Step("folder_click", nActs + 1, <<>>, NoRejection)
  /\ hist' = [hist EXCEPT !.click = Clicked(nActs + 1)]
  /\ UNCHANGED <<pathCase, fileState, scanState, minScoreInput, fileOps,
                 updates>>

\* The directory dialog resolves with no selection: if (!selection) return.
handleOpenFolder_cancelled ==
  \E op \in scanOps :
    /\ op.pc = "open"
    /\ \E selection \in OpenFolderSelections :
         /\ ~Truthy(selection)
         /\ scanOps' = scanOps \ {op}
         /\ last' = Step("folder_cancel", op.id, <<>>, NoRejection)
    /\ hist' = [hist EXCEPT !.click = IF @.id = op.id THEN @ ELSE NoClick]
    /\ UNCHANGED <<pathCase, fileState, scanState, minScoreInput, fileOps,
                   nActs, updates>>

\* The directory dialog resolves with a path: setFolderPath, then scanFolder.
handleOpenFolder_selected ==
  \E op \in scanOps :
    /\ op.pc = "open"
    /\ \E selection \in OpenFolderSelections :
         /\ Truthy(selection)
         /\ LET selectedPath == selection[1] IN
              /\ folderPath' = Some(selectedPath)
              /\ scanFolder(scanOps \ {op}, op.id, selectedPath, op.text)
    /\ UNCHANGED <<pathCase, fileState, minScoreInput, fileOps, nActs,
                   updates>>

\* A click on the rescan button: if (folderPath) scanFolder(folderPath), with
\* the scanFolder of the current render.
handleRescan ==
  /\ ~RescanDisabled
  /\ nActs < MaxUserActions
  /\ Truthy(folderPath)
  /\ nActs' = nActs + 1
  /\ scanFolder(scanOps, nActs + 1, folderPath[1], minScoreInput)
  /\ UNCHANGED <<pathCase, fileState, folderPath, minScoreInput, fileOps,
                 updates>>

\* find_aesthetic_images resolves: setScanResults(results), and finally
\* setScanLoading(false).
scanFolder_resolved ==
  \E op \in scanOps :
    /\ op.pc = "invoke"
    /\ \E results \in FindAestheticResults(op.min_score) :
         /\ scanResults' = results
         /\ last' = Step("scan_ok", op.id, results, NoRejection)
    /\ hist' = [hist EXCEPT !.scan = [id |-> op.id, path |-> op.path,
                                      min_score |-> op.min_score],
                            !.click = NoClick]
    /\ scanLoading' = FALSE
    /\ scanOps' = scanOps \ {op}
    /\ updates' = [updates EXCEPT ![op.id] = @ + 1]
    /\ UNCHANGED <<pathCase, fileState, folderPath, scanError, scanAttempted,
                   minScoreInput, fileOps, nActs>>

\* find_aesthetic_images rejects: setScanResults([]),
\* setScanError(message || fallback), and finally setScanLoading(false).
scanFolder_rejected ==
  \E op \in scanOps :
    /\ op.pc = "invoke"
    /\ \E err \in Rejections :
         LET message == ErrMessage(err) IN
           /\ scanResults' = <<>>
           /\ scanError' = Some(OrElse(message, ScanFallbackMessage))
           /\ last' = Step("scan_err", op.id, <<>>, err)
    /\ hist' = [hist EXCEPT !.scan = NoScan, !.click = NoClick]
    /\ scanLoading' = FALSE
    /\ scanOps' = scanOps \ {op}
    /\ updates' = [updates EXCEPT ![op.id] = @ + 1]
    /\ UNCHANGED <<pathCase, fileState, folderPath, scanAttempted,
                   minScoreInput,
                   fileOps, nActs>>

\* An edit of the minimum-score field: setMinScoreInput(event.target.value).
handleMinScoreChange ==
  /\ nActs < MaxUserActions
  /\ \E value \in MinScoreTexts :
       /\ value # minScoreInput
       /\ minScoreInput' = value
  /\ nActs' = nActs + 1
  /\ last' = Step("edit", nActs + 1, <<>>, NoRejection)
  /\ hist' = [hist EXCEPT !.click = NoClick]
  /\ UNCHANGED <<pathCase, fileState, scanState, fileOps, scanOps, updates>>

\* ------------------------------------------------------------------------
\* Specification
\* ------------------------------------------------------------------------

Next ==
  \/ handleOpenFile
  \/ handleOpenFile_cancelled
  \/ handleOpenFile_selected
  \/ handleOpenFile_resolved
  \/ handleOpenFile_rejected
  \/ handleOpenFolder
  \/ handleOpenFolder_cancelled
  \/ handleOpenFolder_selected
  \/ handleRescan
  \/ scanFolder_resolved
  \/ scanFolder_rejected
  \/ handleMinScoreChange

Spec == Init /\ [][Next]_vars

\* ------------------------------------------------------------------------
\* Rendering a path: getFileName and formatPath applied to one path
\* ------------------------------------------------------------------------

Platforms == {"posix", "windows"}

\* The platform's native separator.
NativeSeparator(platform) == IF platform = "windows" THEN Backslash ELSE Slash

\* The characters paths are built from.
PathChars == {"a", ".", Slash, Backslash}

\* The non-empty components of a path of the platform: any characters but
\* its native separator.
ComponentsOf(platform) ==
  UNION {[1..n -> PathChars \ {NativeSeparator(platform)}] :
           n \in 1..MaxComponentLen}

\* The component lists of a platform, and its paths: the components joined
\* by the native separator, on POSIX with or without the leading "/" of an
\* absolute path.
ComponentLists(platform) ==
  UNION {[1..n -> ComponentsOf(platform)] : n \in 1..MaxComponents}

PathCasesOf(platform, rootedOptions) ==
  {[platform |-> platform, components |-> components, rooted |-> rooted,
    path |-> (IF rooted THEN <<Slash>> ELSE <<>>) \o
               Join(components, NativeSeparator(platform)),
    fileName |-> Null, shown |-> Null] :
     components \in ComponentLists(platform), rooted \in rootedOptions}

PathInit ==
  /\ AppInit
  /\ pathCase \in PathCasesOf("posix", BOOLEAN) \cup
                  PathCasesOf("windows", {FALSE})

\* A row of the scan results table: const fileName = getFileName(result.path)
renderFileName ==
  /\ pathCase.platform \in Platforms
  /\ pathCase.fileName = Null
  /\ pathCase' = [pathCase EXCEPT !.fileName = Some(getFileName(pathCase.path))]
  /\ UNCHANGED appVars

\* The selected file or folder line: {formatPath(filePath)}
renderFormatPath ==
  /\ pathCase.platform \in Platforms
  /\ pathCase.shown = Null
  /\ pathCase' = [pathCase EXCEPT !.shown = Some(formatPath(Some(pathCase.path)))]
  /\ UNCHANGED appVars

PathNext ==
  \/ renderFileName
  \/ renderFormatPath

PathSpec == PathInit /\ [][PathNext]_vars

\* The backend answers every invoke: it resolves or rejects it.
FairSpec ==
  /\ Spec
  /\ WF_vars(handleOpenFile_resolved \/ handleOpenFile_rejected)
  /\ WF_vars(scanFolder_resolved \/ scanFolder_rejected)

\* ------------------------------------------------------------------------
\* Claims
\* ------------------------------------------------------------------------

\* C1: when read_exif resolves with an empty list, after handleOpenFile
\* finishes error is null, fields is empty and loading is false, so the
\* informational notice is shown and the error alert is not.
C1_EmptyReadIsNotAnError ==
  (last.kind = "read_ok" /\ last.result = <<>>) =>
    /\ error = Null
    /\ fields = <<>>
    /\ loading = FALSE
    /\ FileInfoAlertShown
    /\ ~FileErrorAlertShown

\* C2: when find_aesthetic_images resolves with an empty list, after
\* scanFolder finishes scanError is null, scanResults is empty, scanAttempted
\* is true and scanLoading is false, so the 'no images matched' notice is
\* shown and the error alert is not.
C2_EmptyScanIsNotAnError ==
  (last.kind = "scan_ok" /\ last.result = <<>>) =>
    /\ scanError = Null
    /\ scanResults = <<>>
    /\ scanAttempted = TRUE
    /\ scanLoading = FALSE
    /\ ScanInfoAlertShown
    /\ ~ScanErrorAlertShown

\* C3: when an invoke rejects with a string m or an Error whose message is
\* m, after the handler finishes the operation's result list is empty, its
\* loading flag is false, and its error state is exactly m when m is not
\* empty and the fixed fallback text when m is empty.
C3_ErrorsSurfacedVerbatim ==
  /\ (last.kind = "read_err" /\ last.err.kind \in {"string", "Error"}) =>
       /\ fields = <<>>
       /\ loading = FALSE
       /\ last.err.text # "" => error = Some(last.err.text)
       /\ last.err.text = "" => error = Some(ReadFallbackMessage)
  /\ (last.kind = "scan_err" /\ last.err.kind \in {"string", "Error"}) =>
       /\ scanResults = <<>>
       /\ scanLoading = FALSE
       /\ last.err.text # "" => scanError = Some(last.err.text)
       /\ last.err.text = "" => scanError = Some(ScanFallbackMessage)

\* C3's case: a scan has just been rejected with a string and shows it,
\* while the image side still shows the message of a rejected Error.
C3_Witness ==
  /\ last.kind = "scan_err"
  /\ last.err = [kind |-> "string", text |-> "failed to read /pics"]
  /\ scanError = Some("failed to read /pics")
  /\ error = Some("IPC channel closed")

\* Whether a text is, as a whole, a finite decimal number: an optional sign,
\* then digits with at most one point among them and at least one digit.
IsFiniteNumberText(text) ==
  LET signed == text # <<>> /\ text[1] \in {"+", "-"}
      r == IF signed THEN Tail(text) ELSE text
      points == {i \in 1..Len(r) : r[i] = "."}
  IN  /\ \A i \in 1..Len(r) : r[i] \in Digits \cup {"."}
      /\ Cardinality(points) <= 1
      /\ \E i \in 1..Len(r) : r[i] \in Digits

\* C4: whenever scanFolder runs with a minimum-score text that is not a
\* finite number, find_aesthetic_images is not invoked for that request:
\* scanError becomes the validation message, scanResults is empty,
\* scanAttempted is true, and scanLoading keeps its value.
C4_InvalidThresholdRejected ==
  /\ [](\A op \in scanOps : op.pc = "invoke" => IsFiniteNumberText(op.text))
  /\ []((last.kind \in {"scan_start", "scan_refused"}
           /\ ~IsFiniteNumberText(last.text)) =>
          /\ last.kind = "scan_refused"
          /\ scanError = Some(InvalidScoreMessage)
          /\ scanResults = <<>>
          /\ scanAttempted = TRUE
          /\ updates[last.id] = 0
          /\ \A op \in scanOps : op.id # last.id)
  /\ [][last'.kind = "scan_refused" => scanLoading' = scanLoading]_vars

\* C4's case: the field was emptied, a folder was then chosen, and the scan
\* has just been refused without the busy flag being raised.
C4_Witness ==
  /\ last.kind = "scan_refused"
  /\ last.text = <<>>
  /\ minScoreInput = <<>>
  /\ folderPath = Some("/pics")
  /\ scanLoading = FALSE
  /\ scanOps = {}

\* C5: a scan request whose threshold is a negative number fails with an
\* error before any find_aesthetic_images call is started for it.
C5_NegativeThresholdRejected ==
  /\ \A op \in scanOps : op.pc = "invoke" => op.min_score.val >= 0
  /\ (last.kind \in {"scan_start", "scan_refused"}
        /\ IsFiniteNumberText(last.text) /\ ParseFloat(last.text).val < 0) =>
       /\ last.kind = "scan_refused"
       /\ Truthy(scanError)

\* The handler instances awaiting the backend.
ReadInFlight(id) == \E op \in fileOps : op.id = id /\ op.pc = "invoke"

ScanInFlight(id) == \E op \in scanOps : op.id = id /\ op.pc = "invoke"

\* C6: every started read_exif or find_aesthetic_images invocation applies
\* exactly one update, the success update or the failure update; fields and
\* scanResults are only ever written with a whole backend answer (or reset
\* to the empty list); and once the backend has answered, the loading flag
\* of the operation becomes false.
C6_ResultDeliveredOnce ==
  /\ [](\A id \in OpIds : updates[id] <= 1)
  /\ [](\A op \in fileOps \cup scanOps : updates[op.id] = 0)
  /\ [][fields' # fields =>
          /\ last'.kind \in {"read_ok", "read_err"}
          /\ fields' = last'.result]_vars
  /\ [][scanResults' # scanResults =>
          \/ /\ last'.kind \in {"scan_ok", "scan_err"}
             /\ scanResults' = last'.result
          \/ /\ last'.kind \in {"scan_start", "scan_refused"}
             /\ scanResults' = <<>>]_vars
  /\ \A id \in OpIds : ReadInFlight(id) ~> (updates[id] = 1 /\ ~loading)
  /\ \A id \in OpIds : ScanInFlight(id) ~> (updates[id] = 1 /\ ~scanLoading)

\* C6's case: a read and a scan have both been answered, one with a list
\* and one with a rejection, and both loading flags are down.
C6_Witness ==
  /\ last.kind = "scan_err"
  /\ hasData
  /\ \E i, j \in OpIds : i # j /\ updates[i] = 1 /\ updates[j] = 1
  /\ ~loading /\ ~scanLoading

\* C7: every scan started with a finite threshold resets scanResults to the
\* empty list and scanError to null before the backend is invoked, and the
\* scanResults written on completion are exactly the list that invocation
\* returned.
C7_ScanRunsIndependent ==
  /\ last.kind = "scan_start" =>
       /\ scanResults = <<>>
       /\ scanError = Null
       /\ ScanInFlight(last.id)
  /\ last.kind = "scan_ok" => scanResults = last.result

\* C7's case: a rescan has just started although the previous run of the
\* same folder had delivered an answer.
C7_Witness ==
  /\ last.kind = "scan_start"
  /\ last.id = 2
  /\ updates[1] = 1
  /\ folderPath = Some("/pics")
  /\ scanOps = {[id |-> 2, pc |-> "invoke", text |-> InitialMinScoreInput,
                 path |-> "/pics", min_score |-> Finite(75)]}

FileStepKinds == {"file_click", "file_cancel", "read_start", "read_ok", "read_err"}

ScanStepKinds ==
  {"folder_click", "folder_cancel", "scan_start", "scan_refused", "scan_ok",
   "scan_err"}

\* C8: the steps of handleOpenFile change only filePath, fields, loading and
\* error, and the steps of the folder handlers change only folderPath,
\* scanResults, scanLoading, scanError and scanAttempted; while a read_exif
\* call is in flight a scan can be started and its answer applied, and while
\* a scan is in flight an image can be opened and its answer applied.
C8_OperationsDoNotBlock ==
  /\ [][last'.kind \in FileStepKinds =>
          UNCHANGED <<scanState, minScoreInput, scanOps>>]_vars
  /\ [][last'.kind \in ScanStepKinds =>
          UNCHANGED <<fileState, minScoreInput, fileOps>>]_vars
  /\ []((\E op \in fileOps : op.pc = "invoke") =>
          /\ (~scanLoading /\ nActs < MaxUserActions) => ENABLED handleOpenFolder
          /\ (\E op \in scanOps : op.pc = "open") => ENABLED handleOpenFolder_selected
          /\ (\E op \in scanOps : op.pc = "invoke") => ENABLED scanFolder_rejected)
  /\ []((\E op \in scanOps : op.pc = "invoke") =>
          /\ (~loading /\ nActs < MaxUserActions) => ENABLED handleOpenFile
          /\ (\E op \in fileOps : op.pc = "open") => ENABLED handleOpenFile_selected
          /\ (\E op \in fileOps : op.pc = "invoke") => ENABLED handleOpenFile_rejected)

\* C8's case: a scan that was started after a read_exif call has been
\* answered while that call is still in flight.
C8_Witness ==
  /\ last.kind = "scan_ok"
  /\ \E op \in fileOps : op.pc = "invoke" /\ op.id < last.id
  /\ loading /\ ~scanLoading

\* C9: whenever scan results are displayed, the rows of the results table
\* are in descending score order.
C9_RowsInDescendingScoreOrder ==
  \A i \in 1..(Len(ScanTableRows) - 1) :
    ScanTableRows[i].score >= ScanTableRows[i + 1].score

\* The extension allow-list of the folder walker.
ExtensionAllowList ==
  {"jpg", "jpeg", "png", "tif", "tiff", "webp", "heic", "heif", "avif", "bmp"}

Range(seq) == {seq[i] : i \in 1..Len(seq)}

\* C10: the filter of every image picker is exactly the extension
\* allow-list, and every read_exif call is made for the one path a picker
\* with that filter resolved to.
C10_PickerUsesAllowList ==
  /\ Range(IMAGE_FILTERS) = ExtensionAllowList
  /\ \A op \in fileOps :
       /\ Range(op.filters) = ExtensionAllowList
       /\ op.pc = "invoke" =>
            /\ Truthy(op.selection)
            /\ op.selection \in OpenFileSelections(op.filters)
            /\ op.path = op.selection[1]

\* C10's case: read_exif is in flight for a HEIC file chosen in the picker.
C10_Witness ==
  \E op \in fileOps :
    /\ op.pc = "invoke"
    /\ op.path = "/pics/b.heic"
    /\ op.selection = Some("/pics/b.heic")

\* C11: in every reachable state, if fields is non-empty then fields is the
\* list read_exif returned for the current filePath; while a newly selected
\* file is being read, the previous file's fields are not shown under the
\* new filePath.
C11_FieldsBelongToFilePath ==
  hasData => hist.fieldsPath = filePath

\* C12: in every reachable state in which no scan is in flight and
\* scanResults is non-empty, scanResults is the list returned by the most
\* recently started scan, and that scan was started for the current
\* folderPath, whatever the order in which overlapping scans complete.
C12_ResultsFromLatestScan ==
  ((\A op \in scanOps : op.pc # "invoke") /\ hasScanResults) =>
    /\ hist.scan.id = hist.latest
    /\ Some(hist.scan.path) = folderPath

\* The handler instances awaiting invoke("read_exif", ...) and those
\* awaiting invoke("find_aesthetic_images", ...).
ReadsInFlight == {op \in fileOps : op.pc = "invoke"}

ScansInFlight == {op \in scanOps : op.pc = "invoke"}

\* C13: scanLoading is true exactly when at least one find_aesthetic_images
\* call is in flight, loading is true exactly when at least one read_exif
\* call is in flight, and at most one call of each operation is in flight
\* at any time.
C13_BusyFlagsMatchCallsInFlight ==
  /\ scanLoading <=> (ScansInFlight # {})
  /\ loading <=> (ReadsInFlight # {})
  /\ Cardinality(ScansInFlight) <= 1
  /\ Cardinality(ReadsInFlight) <= 1

\* C14: whenever the scan summary reads "N images found with an aesthetic
\* score >= T" or "No images found with an aesthetic score of at least T",
\* T is the min_score that was passed to the find_aesthetic_images call
\* whose answer is the displayed scanResults, after any sequence of edits,
\* folder selections and rescans.
C14_SummaryQuotesScanThreshold ==
  scanSummaryText.kind \in {"found", "none"} =>
    /\ hist.scan # NoScan
    /\ scanSummaryText.score = hist.scan.min_score

\* C15: cancelling the image picker or the folder picker is a no-op: the
\* handler makes no backend call, and filePath, fields, loading, error,
\* folderPath, scanResults, scanLoading, scanError and scanAttempted have the
\* same values after the handler returns as before the button was clicked.
\* The state compared is the one of a handler whose click and cancel are
\* consecutive steps, so no other handler ran in between.
C15_CancelIsNoOp ==
  (last.kind \in {"file_cancel", "folder_cancel"} /\ hist.click.id = last.id) =>
    /\ <<fileState, scanState>> = hist.click.before
    /\ updates[last.id] = 0
    /\ \A op \in fileOps \cup scanOps : op.id # last.id

\* The file-name part of a formatPath text: what precedes the first " - "
\* (with the em dash), or the whole text when there is none.
BeforeDash(text) ==
  LET at == {i \in 1..(Len(text) - 2) : SubSeq(text, i, i + 2) = Dash} IN
    IF at = {} THEN text
    ELSE SubSeq(text, 1, (CHOOSE i \in at : \A j \in at : i <= j) - 1)

\* C16: for every path built from non-empty components joined by the
\* platform's native separator, a component holding any characters but that
\* separator, getFileName(path) is the last component, and it is the
\* file-name part formatPath shows before the dash.
C16_GetFileNameIsLastComponent ==
  pathCase.fileName # Null =>
    /\ pathCase.fileName[1] = pathCase.components[Len(pathCase.components)]
    /\ pathCase.shown # Null =>
         pathCase.fileName[1] = BeforeDash(pathCase.shown[1])

====
